---------------------------- MODULE Spec2Model ----------------------------
(***************************************************************************)
(* Model of prime-algos-rs: the streaming prime generator (prime-iter),    *)
(* the wheel candidate filter and next-prime search (next-prime), and the  *)
(* Miller-Rabin primality oracle (miller-rabin).                           *)
(*                                                                         *)
(* Option<T> is modelled as a sequence: None is << >>, Some(x) is <<x>>.   *)
(***************************************************************************)
EXTENDS Integers, Sequences, FiniteSets, TLC

VARIABLES
    \* prime-iter: PrimeSieveIter<T> and what its caller has seen
    T,               \* the integer type the generator is instantiated at
    sieve_map,       \* BTreeMap<T, T>: composite -> stride
    next_candidate,  \* Option<T>
    item,            \* what the last next() call returned
    produced,        \* every Some(p) returned so far, in order
    overflowed       \* an unchecked operation (curr * two) left T's range

prime_vars == <<T, sieve_map, next_candidate, item, produced, overflowed>>

VARIABLES
    \* next-prime: WheelSieve and WheelSieveIter
    source_file,     \* which file's WheelSieve is built: "lib.rs" or "wheel_sieve.rs"
    wheel_status,    \* "none", "built", "iterating" or "aborted" (a panic)
    wheel_prime_count, \* the order passed to WheelSieve::new
    sieve,           \* WheelSieve {size, residues, diffs}
    start,           \* the value passed to WheelSieve::iter
    index,           \* WheelSieveIter::index (0-based)
    next_value,      \* WheelSieveIter::next_value
    candidates       \* every value the cursor has returned, in order

wheel_vars == <<source_file, wheel_status, wheel_prime_count, sieve, start, index,
                next_value, candidates>>

VARIABLES
    \* next-prime: find
    find_n,          \* find's n: the number to find the next prime after
    next_prime       \* Option: what find returned

find_vars == <<find_n, next_prime>>

VARIABLES
    \* miller-rabin: one call of a public entry point
    entry,           \* "is_probable_prime_with_rng" or "is_probable_prime_bigint"
    mr_w,            \* the argument w (an integer; negative only for the BigInt entry)
    mr_iter,         \* the argument iter
    mr_rng,          \* the values the random source returns, in order
    verdict,         \* Option<bool>: what the call returned
    unsigned_calls   \* the arguments with which the unsigned test was entered

mr_vars == <<entry, mr_w, mr_iter, mr_rng, verdict, unsigned_calls>>

vars == <<prime_vars, wheel_vars, find_vars, mr_vars>>

None == << >>
Some(x) == <<x>>

(***************************************************************************)
(* Bounds of the model.                                                    *)
(***************************************************************************)
\* widest integer type the generator is instantiated at (i8, u8, ... )
MaxBits == 10
\* width in bits of the native unsigned word (usize) the wheel is built in
WordBits == 8
\* largest wheel order passed to WheelSieve::new
MaxOrder == 5
\* largest start value passed to WheelSieve::iter
MaxStart == 215
\* largest number of next() calls on one wheel cursor
MaxCalls == 10
\* largest n passed to find
MaxN == 120
\* the oracle is called on 0..MaxSmallW, ...
MaxSmallW == 30
\* ... on 10,000 .. 10,000 + MidSpan (the first values trial division leaves open), ...
MidSpan == 170
\* ... on 10,000^2 - TopSpan .. 10,000^2 - 1, and on the semiprimes of PastTrial;
TopSpan == 12
\* the BigInt entry is also called on -MaxNegW .. -1
MaxNegW == 3
\* largest round count
MaxIter == 2
\* the random source returns values in 2 .. 1 + MaxBases
MaxBases == 2

(***************************************************************************)
(* Reference notions the properties are stated with (not taken from the   *)
(* code): primality by trial division.                                     *)
(***************************************************************************)
RECURSIVE SqrtSearch(_, _, _)
\* the largest r in lo..hi with r * r <= x
SqrtSearch(x, lo, hi) ==
    IF lo = hi THEN lo
    ELSE LET mid == (lo + hi + 1) \div 2
         IN  IF mid <= x \div mid THEN SqrtSearch(x, mid, hi) ELSE SqrtSearch(x, lo, mid - 1)

Isqrt(x) == SqrtSearch(x, 0, x)

IsPrime(x) == x >= 2 /\ \A d \in 2..Isqrt(x) : x % d # 0

\* all primes representable in the widest type of the model
RefPrimes == {p \in 2..((2 ^ MaxBits - 1)) : IsPrime(p)}

\* s is exactly the ascending list of all primes up to its last element
IsPrimeListing(s) ==
    \A i \in 1..Len(s) :
        s[i] \in RefPrimes /\ Cardinality({q \in RefPrimes : q <= s[i]}) = i

(***************************************************************************)
(* Fixed-width integer types: num_traits::PrimInt.                         *)
(***************************************************************************)
\* the narrowest primitive integer types are i8 and u8
IntTypes == [signed : BOOLEAN, bits : 8..MaxBits]

i8 == [signed |-> TRUE, bits |-> 8]
u8 == [signed |-> FALSE, bits |-> 8]

\* T::MAX, written so that no intermediate value exceeds it
max_value(t) ==
    IF t.signed THEN (2 ^ (t.bits - 2) - 1) * 2 + 1
    ELSE (2 ^ (t.bits - 1) - 1) * 2 + 1

\* T::from(v): None when v is not representable
T_from(v, max) == IF v > max THEN None ELSE Some(v)

checked_add(a, b, max) == IF a > max - b THEN None ELSE Some(a + b)

checked_mul(a, b, max) == IF a > max \div b THEN None ELSE Some(a * b)

(***************************************************************************)
(* BTreeMap operations on a TLA+ function.                                 *)
(***************************************************************************)
contains_key(map, k) == k \in DOMAIN map

remove(map, k) == [x \in DOMAIN map \ {k} |-> map[x]]

\* an existing entry for k is replaced
insert(map, k, v) == (k :> v) @@ map

EmptyMap == [x \in {} |-> 0]

(***************************************************************************)
(* PrimeSieveIter::next                                                    *)
(***************************************************************************)
\* mutant: the first multiple is taken without looking for a free slot
find_free_no_scan(map, n, stride, max) == n

RECURSIVE find_free(_, _, _, _)
\* successors(curr.checked_add(&stride), |&n| n.checked_add(&stride))
\*     .find(|n| !self.sieve_map.contains_key(n))
find_free(map, n, stride, max) ==
    IF n = None THEN None
    ELSE IF ~contains_key(map, n[1]) THEN n
    ELSE find_free(map, checked_add(n[1], stride, max), stride, max)

\* the composite branch: move the removed entry to its next free multiple
composite_branch(map, curr, max) ==
    LET stride == map[curr]
        removed == remove(map, curr)
        next_composite == find_free(removed, checked_add(curr, stride, max), stride, max)
    IN  IF next_composite # None
        THEN insert(removed, next_composite[1], stride)
        ELSE removed

\* mutant: the prime itself is stored as the stride, without doubling
prime_branch_single_stride(map, curr, max) ==
    LET next_composite == checked_mul(curr, curr, max)
    IN  IF next_composite # None
        THEN insert(map, next_composite[1], curr)
        ELSE map

\* the prime branch: insert curr*curr -> curr*two unless curr*curr overflows
prime_branch(map, curr, max) ==
    LET next_composite == checked_mul(curr, curr, max)
    IN  IF next_composite # None
        THEN insert(map, next_composite[1], curr * 2)
        ELSE map

\* `curr * two` is an unchecked multiplication: outside T it panics or wraps
prime_branch_overflows(curr, max) ==
    checked_mul(curr, curr, max) # None /\ curr * 2 > max

RECURSIVE sieve_loop_early_return(_, _, _)
\* mutant: `curr.checked_add(&two)?` ends the call as soon as the counter overflows
sieve_loop_early_return(map, cand, max) ==
    IF cand = None \/ checked_add(cand[1], 2, max) = None
    THEN [sieve_map |-> map, next_candidate |-> None, item |-> None,
          overflowed |-> FALSE]
    ELSE LET curr == cand[1]
             nxt == checked_add(curr, 2, max)
         IN  IF contains_key(map, curr)
             THEN sieve_loop_early_return(composite_branch(map, curr, max), nxt, max)
             ELSE [sieve_map |-> prime_branch(map, curr, max),
                   next_candidate |-> nxt,
                   item |-> Some(curr),
                   overflowed |-> prime_branch_overflows(curr, max)]

RECURSIVE sieve_loop(_, _, _)
\* the `loop` of next(): returns the new fields and the item returned
sieve_loop(map, cand, max) ==
    IF cand = None
    THEN [sieve_map |-> map, next_candidate |-> None, item |-> None,
          overflowed |-> FALSE]
    ELSE LET curr == cand[1]
             nxt == checked_add(curr, 2, max)
         IN  IF contains_key(map, curr)
             THEN sieve_loop(composite_branch(map, curr, max), nxt, max)
             ELSE [sieve_map |-> prime_branch(map, curr, max),
                   next_candidate |-> nxt,
                   item |-> Some(curr),
                   overflowed |-> prime_branch_overflows(curr, max)]

PrimeSieveIter_next(map, cand, max) ==
    IF cand = None
    THEN [sieve_map |-> map, next_candidate |-> None, item |-> None,
          overflowed |-> FALSE]
    ELSE IF cand[1] = 2
    THEN [sieve_map |-> map, next_candidate |-> T_from(3, max), item |-> Some(2),
          overflowed |-> FALSE]
    ELSE sieve_loop(map, cand, max)

\* prime_iter::new::<T>()
new(max) == [sieve_map |-> EmptyMap, next_candidate |-> T_from(2, max)]

(***************************************************************************)
(* The generator as a state machine: one action per next() call.           *)
(***************************************************************************)
PrimeIdle ==
    /\ T = u8
    /\ sieve_map = EmptyMap
    /\ next_candidate = None
    /\ item = None
    /\ produced = << >>
    /\ overflowed = FALSE

WheelIdle ==
    /\ source_file = "lib.rs"
    /\ wheel_status = "none"
    /\ wheel_prime_count = 0
    /\ sieve = [size |-> 0, residues |-> << >>, diffs |-> << >>]
    /\ start = 0
    /\ index = 0
    /\ next_value = 0
    /\ candidates = << >>

FindIdle ==
    /\ find_n = 0
    /\ next_prime = None

MRIdle ==
    /\ entry = "none"
    /\ mr_w = 0
    /\ mr_iter = 0
    /\ mr_rng = << >>
    /\ verdict = None
    /\ unsigned_calls = << >>

PrimeInit ==
    /\ WheelIdle
    /\ FindIdle
    /\ MRIdle
    /\ T \in IntTypes
    /\ sieve_map = new(max_value(T)).sieve_map
    /\ next_candidate = new(max_value(T)).next_candidate
    /\ item = None
    /\ produced = << >>
    /\ overflowed = FALSE

PrimeNext ==
    LET r == PrimeSieveIter_next(sieve_map, next_candidate, max_value(T))
    IN  /\ sieve_map' = r.sieve_map
        /\ next_candidate' = r.next_candidate
        /\ item' = r.item
        /\ produced' = IF r.item # None THEN Append(produced, r.item[1]) ELSE produced
        /\ overflowed' = (overflowed \/ r.overflowed)
        /\ UNCHANGED <<T, wheel_vars, find_vars, mr_vars>>

SpecPrimes == PrimeInit /\ [][PrimeNext]_vars

(***************************************************************************)
(* next-prime: primorial, WheelSieve::new, WheelSieve::iter,               *)
(* WheelSieveIter::next.  usize is modelled WordBits wide.                 *)
(***************************************************************************)
usize == [signed |-> FALSE, bits |-> WordBits]

RECURSIVE take_from(_, _, _, _)
\* Iterator::take(n) on a PrimeSieveIter in state (map, cand): the items as a sequence
take_from(map, cand, max, n) ==
    IF n = 0 THEN << >>
    ELSE LET r == PrimeSieveIter_next(map, cand, max)
         IN  IF r.item = None THEN << >>
             ELSE <<r.item[1]>> \o take_from(r.sieve_map, r.next_candidate, max, n - 1)

\* prime_iter::new::<usize>().take(n)
take(n) ==
    take_from(new(max_value(usize)).sieve_map, new(max_value(usize)).next_candidate,
              max_value(usize), n)

RECURSIVE fold_mul(_, _, _)
\* the running product of ps[i..], with `overflow` set once a step leaves usize;
\* `value` is the product wrapped to the word
fold_mul(ps, i, acc) ==
    IF i > Len(ps) THEN acc
    ELSE fold_mul(ps, i + 1,
                  [value |-> (acc.value * ps[i]) % (max_value(usize) + 1),
                   overflow |-> acc.overflow \/ acc.value * ps[i] > max_value(usize)])

\* lib.rs: `.product()`: an overflowing `*` panics where overflow checks are on
\* (debug builds) and wraps where they are off (release builds)
primorial_product(n) ==
    LET r == fold_mul(take(n), 1, [value |-> 1, overflow |-> FALSE])
    IN  IF r.overflow
        THEN {[panic |-> TRUE, value |-> 0], [panic |-> FALSE, value |-> r.value]}
        ELSE {[panic |-> FALSE, value |-> r.value]}

\* wheel_sieve.rs: `.fold(1, |acc, p| acc.checked_mul(p).expect("overflow"))`
primorial_checked(n) ==
    LET r == fold_mul(take(n), 1, [value |-> 1, overflow |-> FALSE])
    IN  IF r.overflow
        THEN {[panic |-> TRUE, value |-> 0]}
        ELSE {[panic |-> FALSE, value |-> r.value]}

\* the outcomes of primorial(n) in the given file
primorial(file, n) ==
    IF file = "lib.rs" THEN primorial_product(n) ELSE primorial_checked(n)

RECURSIVE gcd(_, _)
\* num_integer::Integer::gcd
gcd(a, b) == IF b = 0 THEN a ELSE gcd(b, a % b)

\* the elements of the set S of integers as an ascending sequence
Ascending(S) ==
    [i \in 1..Cardinality(S) |->
        CHOOSE x \in S : Cardinality({y \in S : y < x}) = i - 1]

\* (1..size).filter(|&x| x.gcd(&size) == 1).collect()
residues_of(size) == Ascending({x \in 1..(size - 1) : gcd(x, size) = 1})

\* (size + residues[(i + 1) % len] - residues[i]) % size, for i in 0..len;
\* circular_tuple_windows() pairs the same elements
diffs_of(size, residues) ==
    [i \in 1..Len(residues) |->
        (size + residues[(i % Len(residues)) + 1] - residues[i]) % size]

\* WheelSieve::new, given the value primorial returned
WheelSieve_new(size) ==
    [size |-> size,
     residues |-> residues_of(size),
     diffs |-> diffs_of(size, residues_of(size))]

\* mutant: the first residue strictly above the remainder
find_index_strict(residues, remainder) ==
    LET hits == {i \in 0..(Len(residues) - 1) : remainder < residues[i + 1]}
    IN  IF hits = {} THEN 0 ELSE CHOOSE i \in hits : \A j \in hits : i <= j

\* (0..residues.len()).find(|&i| remainder <= residues[i]).unwrap_or(0)
find_index(residues, remainder) ==
    LET hits == {i \in 0..(Len(residues) - 1) : remainder <= residues[i + 1]}
    IN  IF hits = {} THEN 0 ELSE CHOOSE i \in hits : \A j \in hits : i <= j

\* WheelSieve::iter: the cursor's index and next_value
WheelSieve_iter(w, s) ==
    LET remainder == s % w.size
        idx == find_index(w.residues, remainder)
    IN  [index |-> idx,
         next_value |-> s + ((w.residues[idx + 1] + w.size - remainder) % w.size)]

\* WheelSieveIter::next: the new fields and the value returned
WheelSieveIter_next(w, idx, value) ==
    [next_value |-> value + w.diffs[idx + 1],
     index |-> (idx + 1) % Len(w.diffs),
     item |-> value]

(***************************************************************************)
(* The wheel as a state machine: construction, cursor creation, next().    *)
(***************************************************************************)
WheelInit ==
    /\ PrimeIdle
    /\ WheelIdle
    /\ FindIdle
    /\ MRIdle

WheelNew ==
    /\ wheel_status = "none"
    /\ \E file \in {"lib.rs", "wheel_sieve.rs"}, k \in 1..MaxOrder :
         \E outcome \in primorial(file, k) :
            /\ source_file' = file
            /\ wheel_prime_count' = k
            /\ IF outcome.panic
               THEN /\ wheel_status' = "aborted"
                    /\ UNCHANGED sieve
               ELSE /\ wheel_status' = "built"
                    /\ sieve' = WheelSieve_new(outcome.value)
    /\ UNCHANGED <<start, index, next_value, candidates, prime_vars, find_vars, mr_vars>>

WheelIter ==
    /\ wheel_status = "built"
    /\ \E s \in 0..MaxStart :
         /\ start' = s
         /\ IF sieve.size = 0 \/ sieve.residues = << >>
            THEN \* `start % 0`, or residues[0] of an empty vector: a panic
                 /\ wheel_status' = "aborted"
                 /\ UNCHANGED <<index, next_value>>
            ELSE /\ wheel_status' = "iterating"
                 /\ index' = WheelSieve_iter(sieve, s).index
                 /\ next_value' = WheelSieve_iter(sieve, s).next_value
    /\ UNCHANGED <<source_file, wheel_prime_count, sieve, candidates, prime_vars, find_vars, mr_vars>>

WheelNext ==
    /\ wheel_status = "iterating"
    /\ Len(candidates) < MaxCalls
    /\ LET r == WheelSieveIter_next(sieve, index, next_value)
       IN  /\ next_value' = r.next_value
           /\ index' = r.index
           /\ candidates' = Append(candidates, r.item)
    /\ UNCHANGED <<source_file, wheel_status, wheel_prime_count, sieve, start, prime_vars, find_vars,
                   mr_vars>>

WheelStep == WheelNew \/ WheelIter \/ WheelNext

SpecWheel == WheelInit /\ [][WheelStep]_vars

(***************************************************************************)
(* next-prime: find                                                        *)
(***************************************************************************)
WHEEL_PRIME_COUNT == 4

\* Lazy::new(|| WheelSieve::new(WHEEL_PRIME_COUNT)); 210 fits the word, so
\* primorial has the one outcome
WHEEL_SIEVE_210 ==
    WheelSieve_new((CHOOSE o \in primorial("lib.rs", WHEEL_PRIME_COUNT) : ~o.panic).value)

RECURSIVE find_first(_, _, _, _)
\* Iterator::find on the cursor (idx, value): next() until is_prime accepts;
\* the predicate is the set of values it accepts
find_first(w, idx, value, is_prime) ==
    LET r == WheelSieveIter_next(w, idx, value)
    IN  IF r.item \in is_prime THEN r.item
        ELSE find_first(w, r.index, r.next_value, is_prime)

\* WHEEL_SIEVE_210.iter(&(n + 1u8)).find(|c| is_prime(c)).unwrap()
find(m, is_prime) ==
    LET c == WheelSieve_iter(WHEEL_SIEVE_210, m + 1)
    IN  find_first(WHEEL_SIEVE_210, c.index, c.next_value, is_prime)

FindInit ==
    /\ PrimeIdle
    /\ WheelIdle
    /\ MRIdle
    /\ find_n \in 0..MaxN
    /\ next_prime = None

\* find is called with a predicate that decides primality exactly
Find ==
    /\ next_prime = None
    /\ next_prime' = Some(find(find_n, RefPrimes))
    /\ UNCHANGED <<find_n, prime_vars, wheel_vars, mr_vars>>

SpecFind == FindInit /\ [][Find]_vars

(***************************************************************************)
(* miller-rabin: PRIMES, is_probable_prime_with_rng, is_probable_prime,    *)
(* is_probable_prime_bigint.                                               *)
(***************************************************************************)
\* the usize the trial-division list is generated in: 32 bits or more on
\* every target, 31 here (the widest TLC's integers allow); the
\* generator is stopped at 10,000, far below either
usize_wide == [signed |-> FALSE, bits |-> 31]

\* take_while(|p| *p < 10_000_usize)
PRIME_LIMIT == 10000

\* one step of take_while over the generator: st.out collects the items
\* taken, st.done is set by the first item that fails the test (or by None)
take_while_step(st, max, limit) ==
    IF st.done THEN st
    ELSE LET r == PrimeSieveIter_next(st.sieve_map, st.next_candidate, max)
         IN  IF r.item = None \/ ~(r.item[1] < limit)
             THEN [st EXCEPT !.done = TRUE]
             ELSE [sieve_map |-> r.sieve_map,
                   next_candidate |-> r.next_candidate,
                   out |-> Append(st.out, r.item[1]),
                   done |-> FALSE]

RECURSIVE take_while_run(_, _, _, _)
\* 2^k steps of take_while, by halving (so the recursion stays shallow)
take_while_run(st, k, max, limit) ==
    IF k = 0 THEN take_while_step(st, max, limit)
    ELSE LET half == take_while_run(st, k - 1, max, limit)
         IN  IF half.done THEN half ELSE take_while_run(half, k - 1, max, limit)

\* static PRIMES: prime_iter::new::<usize>().take_while(|p| *p < 10_000).collect();
\* 2^14 > 10,000 steps are more than the generator needs to pass the limit
PRIMES ==
    take_while_run([sieve_map |-> new(max_value(usize_wide)).sieve_map,
                    next_candidate |-> new(max_value(usize_wide)).next_candidate,
                    out |-> << >>,
                    done |-> FALSE],
                   14, max_value(usize_wide), PRIME_LIMIT).out

\* `for p in PRIMES.iter() { if w == p { return true; } if w % p == 0 { return false; } }`:
\* Some(value returned) at the first p where a return fires, None when the loop ends
trial_division(w) ==
    LET hits == {i \in 1..Len(PRIMES) : w = PRIMES[i] \/ w % PRIMES[i] = 0}
    IN  IF hits = {} THEN None
        ELSE LET first == CHOOSE i \in hits : \A j \in hits : i <= j
             IN  Some(w = PRIMES[first])

RECURSIVE mulmod_by_doubling(_, _, _)
\* a * b mod w for a < w, by doubling: every intermediate value stays below 2 * w
mulmod_by_doubling(a, b, w) ==
    IF b = 0 THEN 0
    ELSE LET h == mulmod_by_doubling(a, b \div 2, w)
             d == (h + h) % w
         IN  IF b % 2 = 1 THEN (d + a) % w ELSE d

\* BigUint multiplication followed by %: exact.  The operands are bound to
\* their values first, so the recursion does not re-evaluate them
mulmod(a, b, w) == CHOOSE r \in {mulmod_by_doubling(x, y, w) : x \in {a}, y \in {b}} : TRUE

RECURSIVE modpow_by_squaring(_, _, _)
modpow_by_squaring(b, e, w) ==
    IF e = 0 THEN 1 % w
    ELSE CHOOSE r \in {IF e % 2 = 1 THEN mulmod(mulmod(h, h, w), b % w, w)
                                      ELSE mulmod(h, h, w) :
                        h \in {modpow_by_squaring(b, e \div 2, w)}} : TRUE

\* BigUint::modpow
modpow(b, e, w) == CHOOSE r \in {modpow_by_squaring(x, y, w) : x \in {b}, y \in {e}} : TRUE

RECURSIVE trailing_zeros(_)
\* BigUint::trailing_zeros of a positive value
trailing_zeros(x) == IF x % 2 = 1 THEN 0 ELSE 1 + trailing_zeros(x \div 2)

\* `(1..a).scan(z, |z, _| Some(z.modpow(&TWO, w)))`: the items the scan yields.
\* The closure returns z.modpow(2, w) and never assigns the state *z, so every
\* one of the a - 1 items is the square of the scan's initial state
scan(z, a, w) == [j \in 1..(a - 1) |-> modpow(z, 2, w)]

\* `.find(|z| z == &w_minus_1 || *z == *ONE)`
find_one_or_minus_one(zs, w) ==
    LET hits == {j \in 1..Len(zs) : zs[j] = w - 1 \/ zs[j] = 1}
    IN  IF hits = {} THEN None
        ELSE Some(zs[CHOOSE j \in hits : \A k \in hits : j <= k])

\* steps 4.3 - 4.7 for the base b: TRUE for `continue`, FALSE for `return false`
round_continues(w, b) ==
    LET w_minus_1 == w - 1
        a == trailing_zeros(w_minus_1)
        m == w_minus_1 \div (2 ^ a)
        z == modpow(b, m, w)
    IN  IF z = 1 \/ z = w_minus_1 THEN TRUE
        ELSE LET result == find_one_or_minus_one(scan(z, a, w), w)
             IN  result # None /\ result[1] = w_minus_1

RECURSIVE rounds(_, _, _, _)
\* `for _ in 0..iter`, from the i-th round on; rng[i] is the i-th value drawn
rounds(w, iter, rng, i) ==
    IF i > iter THEN TRUE
    ELSE IF round_continues(w, rng[i]) THEN rounds(w, iter, rng, i + 1)
    ELSE FALSE

is_probable_prime_with_rng(w, iter, rng) ==
    IF w <= 1 THEN FALSE
    ELSE LET t == trial_division(w)
         IN  IF t # None THEN t[1] ELSE rounds(w, iter, rng, 1)

\* is_probable_prime: the same with the values OsRng returns
is_probable_prime(w, iter, rng) == is_probable_prime_with_rng(w, iter, rng)

\* num_bigint::BigInt::to_biguint: None for a negative value, Some otherwise
\* (zero included)
to_biguint(w) == IF w < 0 THEN None ELSE Some(w)

\* mutant: the magnitude of w is tested, whatever its sign
is_probable_prime_bigint_magnitude(w, iter, rng) ==
    LET u == IF w < 0 THEN 0 - w ELSE w
    IN  [verdict |-> is_probable_prime(u, iter, rng), unsigned_calls |-> <<u>>]

\* is_probable_prime_bigint: its result, and the calls of the unsigned test it makes
is_probable_prime_bigint(w, iter, rng) ==
    LET u == to_biguint(w)
    IN  IF u # None
        THEN [verdict |-> is_probable_prime(u[1], iter, rng), unsigned_calls |-> <<u[1]>>]
        ELSE [verdict |-> FALSE, unsigned_calls |-> << >>]

(***************************************************************************)
(* The oracle as a state machine: the arguments are drawn in the initial   *)
(* state and one action per entry point makes the call.                    *)
(***************************************************************************)
\* composites with no prime factor below 10,000
PastTrial == {10007 * 10007, 10007 * 10009}

UnsignedInputs ==
    (0..MaxSmallW) \cup (PRIME_LIMIT..(PRIME_LIMIT + MidSpan))
        \cup ((PRIME_LIMIT * PRIME_LIMIT - TopSpan)..(PRIME_LIMIT * PRIME_LIMIT - 1))
        \cup PastTrial

SignedInputs == UnsignedInputs \cup ((0 - MaxNegW)..(0 - 1))

MRInit ==
    /\ PrimeIdle
    /\ WheelIdle
    /\ FindIdle
    /\ entry \in {"is_probable_prime_with_rng", "is_probable_prime_bigint"}
    /\ mr_w \in IF entry = "is_probable_prime_bigint" THEN SignedInputs ELSE UnsignedInputs
    /\ mr_iter \in 0..MaxIter
    /\ mr_rng \in [1..mr_iter -> 2..(1 + MaxBases)]
    /\ verdict = None
    /\ unsigned_calls = << >>

CallWithRng ==
    /\ entry = "is_probable_prime_with_rng"
    /\ verdict = None
    /\ verdict' = Some(is_probable_prime_with_rng(mr_w, mr_iter, mr_rng))
    /\ unsigned_calls' = <<mr_w>>
    /\ UNCHANGED <<entry, mr_w, mr_iter, mr_rng, prime_vars, wheel_vars, find_vars>>

CallBigint ==
    /\ entry = "is_probable_prime_bigint"
    /\ verdict = None
    /\ LET r == is_probable_prime_bigint(mr_w, mr_iter, mr_rng)
       IN  /\ verdict' = Some(r.verdict)
           /\ unsigned_calls' = r.unsigned_calls
    /\ UNCHANGED <<entry, mr_w, mr_iter, mr_rng, prime_vars, wheel_vars, find_vars>>

MRStep == CallWithRng \/ CallBigint

SpecMR == MRInit /\ [][MRStep]_vars

\* the last call returned None after at least one prime was returned
Exhausted == item = None /\ produced # << >>

\* the 31 primes up to 127
PrimesTo127 ==
    <<2, 3, 5, 7, 11, 13, 17, 19, 23, 29, 31, 37, 41, 43, 47, 53, 59, 61, 67, 71,
      73, 79, 83, 89, 97, 101, 103, 107, 109, 113, 127>>

\* the primes between 128 and 255
PrimesTo255 ==
    PrimesTo127 \o <<131, 137, 139, 149, 151, 157, 163, 167, 173, 179, 181, 191,
                     193, 197, 199, 211, 223, 227, 229, 233, 239, 241, 251>>

IsPrefixOf(s, t) == Len(s) <= Len(t) /\ s = SubSeq(t, 1, Len(s))

\* s and t agree wherever both are defined
AgreeWith(s, t) == \A i \in 1..Len(s) : i <= Len(t) => s[i] = t[i]

(***************************************************************************)
(* C4: for every integer type T, the values returned by successive next()  *)
(* calls are exactly the primes 2 <= p <= T::MAX in increasing order, then *)
(* None on every later call; no unchecked operation overflows.             *)
(***************************************************************************)
C4_AllPrimesThenNone ==
    /\ ~overflowed
    /\ IsPrimeListing(produced)
    /\ item # None => item[1] = produced[Len(produced)] /\ item[1] <= max_value(T)
    /\ Exhausted =>
          /\ next_candidate = None
          /\ \A q \in RefPrimes : q <= max_value(T) => q <= produced[Len(produced)]

\* an unsigned generator has run past its last prime and reported None
C4_Witness == Exhausted /\ ~T.signed /\ next_candidate = None /\ Len(produced) > 31

(***************************************************************************)
(* C7 as stated: at u8 the generator produces exactly the 31 primes up to  *)
(* 127 and the call after 127 reports end-of-sequence.                     *)
(***************************************************************************)
C7_U8EndsAt127 ==
    T = u8 =>
        /\ IsPrefixOf(produced, PrimesTo127)
        /\ produced = PrimesTo127 => next_candidate = None

(***************************************************************************)
(* C7 amended: at i8 (the signed 8-bit type) the generator produces        *)
(* exactly the 31 primes up to 127 and the call after 127 reports          *)
(* end-of-sequence; at u8 it produces the 54 primes up to 251 and then     *)
(* reports end-of-sequence.                                                *)
(***************************************************************************)
C7_I8EndsAt127 ==
    /\ T = i8 =>
          /\ IsPrefixOf(produced, PrimesTo127)
          /\ produced = PrimesTo127 => next_candidate = None
          /\ Exhausted => produced = PrimesTo127
    /\ T = u8 =>
          /\ IsPrefixOf(produced, PrimesTo255)
          /\ Exhausted => produced = PrimesTo255

\* the i8 generator has returned 127 and then None
C7_Witness == T = i8 /\ Exhausted /\ produced = PrimesTo127

\* the product of the first k primes, in unbounded arithmetic
RECURSIVE ExactPrimorial(_)
ExactPrimorial(k) == IF k = 0 THEN 1 ELSE PrimesTo127[k] * ExactPrimorial(k - 1)

\* v has no common factor with the product of the first k primes
CoprimeToWheel(v, k) == \A j \in 1..k : v % PrimesTo127[j] # 0

WheelExists == wheel_status \in {"built", "iterating"}

Range(s) == {s[i] : i \in 1..Len(s)}

(***************************************************************************)
(* C5 as stated: for every wheel order k >= 1 and every start, every value *)
(* the cursor produces is >= start and strictly greater than the one       *)
(* before it; every entry of the gap table is >= 1.                        *)
(***************************************************************************)
C5_StrictlyIncreasing ==
    WheelExists =>
        /\ \A i \in 1..Len(sieve.diffs) : sieve.diffs[i] >= 1
        /\ \A i \in 1..Len(candidates) :
              /\ candidates[i] >= start
              /\ i > 1 => candidates[i] > candidates[i - 1]

(***************************************************************************)
(* C6: for wheel orders 2, 3 and 4 (moduli 6, 30, 210) and every start,    *)
(* the cursor produces exactly the ascending enumeration of the integers   *)
(* v >= start coprime to the modulus: each output is coprime, congruent to *)
(* a residue, and no coprime integer lies between start and the first      *)
(* output or between two consecutive outputs.                              *)
(***************************************************************************)
C6_CoprimeEnumeration ==
    (WheelExists /\ wheel_prime_count \in 2..4) =>
        /\ sieve.size = ExactPrimorial(wheel_prime_count)
        /\ \A i \in 1..Len(candidates) :
              LET lower == IF i = 1 THEN start ELSE candidates[i - 1] + 1
              IN  /\ candidates[i] >= lower
                  /\ CoprimeToWheel(candidates[i], wheel_prime_count)
                  /\ (candidates[i] % sieve.size) \in Range(sieve.residues)
                  /\ \A v \in lower..(candidates[i] - 1) :
                        ~CoprimeToWheel(v, wheel_prime_count)
        /\ (wheel_prime_count = 3 /\ start = 0) =>
              AgreeWith(candidates, <<1, 7, 11, 13, 17, 19, 23, 29, 31, 37>>)
        /\ (wheel_prime_count = 4 /\ start = 0) =>
              AgreeWith(candidates, <<1, 11, 13, 17, 19, 23, 29, 31, 37, 41>>)

\* an order-4 cursor started at 200 has wrapped past the modulus 210
C6_Witness ==
    /\ wheel_status = "iterating"
    /\ wheel_prime_count = 4
    /\ start = 200
    /\ Len(candidates) >= 3
    /\ candidates[3] = 221

(***************************************************************************)
(* C9 as stated: construction with an order whose primorial exceeds the    *)
(* native word aborts and never yields a wheel with the wrapped product as *)
(* modulus; for an order whose primorial fits, the modulus is the exact    *)
(* primorial (2, 6, 30, 210 for k = 1..4).                                 *)
(***************************************************************************)
C9_OverflowAborts ==
    wheel_status # "none" =>
        IF ExactPrimorial(wheel_prime_count) > max_value(usize)
        THEN wheel_status = "aborted"
        ELSE /\ wheel_status # "aborted"
             /\ sieve.size = ExactPrimorial(wheel_prime_count)
             /\ wheel_prime_count <= 4 =>
                   sieve.size = <<2, 6, 30, 210>>[wheel_prime_count]

(***************************************************************************)
(* C1 as stated: for every n >= 0 (including n < 7) and a predicate that   *)
(* decides primality exactly, find returns the smallest prime strictly     *)
(* greater than n.                                                         *)
(***************************************************************************)
C1_SmallestPrimeAbove ==
    next_prime # None =>
        /\ next_prime[1] > find_n
        /\ next_prime[1] \in RefPrimes
        /\ \A q \in RefPrimes : q > find_n => q >= next_prime[1]

\* the call under test has returned
Returned == verdict # None

\* w - 1 = 2^a * m with m odd
TwoExponent(w) == trailing_zeros(w - 1)
OddPart(w) == (w - 1) \div (2 ^ TwoExponent(w))

\* z_j = b^(m * 2^j) mod w
Z(w, b, j) == modpow(b, OddPart(w) * (2 ^ j), w)

\* the round for base b passes: z_0 is 1 or w-1, or some z_j (1 <= j <= a-1)
\* is w-1 before any z_j is 1
RoundPasses(w, b) ==
    \/ Z(w, b, 0) = 1
    \/ Z(w, b, 0) = w - 1
    \/ \E j \in 1..(TwoExponent(w) - 1) :
          /\ Z(w, b, j) = w - 1
          /\ \A i \in 1..(j - 1) : Z(w, b, i) # 1

(***************************************************************************)
(* C2 as stated: is_probable_prime_with_rng has one-sided error only: for  *)
(* a prime w it returns true for every round count and every sequence of   *)
(* sampled bases; it returns false only when w <= 1 or w is composite.     *)
(***************************************************************************)
C2_OneSidedError ==
    (entry = "is_probable_prime_with_rng" /\ Returned) =>
        /\ IsPrime(mr_w) => verdict = Some(TRUE)
        /\ verdict = Some(FALSE) => (mr_w <= 1 \/ ~IsPrime(mr_w))

(***************************************************************************)
(* C3 as stated: for every w < 10,000^2, every round count >= 1 and every  *)
(* choice of sampled bases the result equals the exact primality of w; in  *)
(* particular 0, 1 and 4 give false and 2 and 3 give true.                 *)
(***************************************************************************)
C3_ExactBelowLimitSquared ==
    (entry = "is_probable_prime_with_rng" /\ Returned
        /\ mr_w < PRIME_LIMIT * PRIME_LIMIT /\ mr_iter >= 1) =>
        /\ verdict = Some(IsPrime(mr_w))
        /\ mr_w \in {0, 1, 4} => verdict = Some(FALSE)
        /\ mr_w \in {2, 3} => verdict = Some(TRUE)

(***************************************************************************)
(* C8 as stated: is_probable_prime_bigint returns false for every w <= 0   *)
(* without invoking the unsigned test, and for every w > 0 returns the     *)
(* verdict of is_probable_prime on the equal unsigned value.               *)
(***************************************************************************)
C8_NonPositiveNeverTested ==
    (entry = "is_probable_prime_bigint" /\ Returned) =>
        /\ mr_w <= 0 => (verdict = Some(FALSE) /\ unsigned_calls = << >>)
        /\ mr_w > 0 => verdict = Some(is_probable_prime(mr_w, mr_iter, mr_rng))

(***************************************************************************)
(* C8 amended: is_probable_prime_bigint returns false for every w <= 0;    *)
(* for w < 0 the unsigned test is not invoked, for w = 0 it is invoked on  *)
(* 0 (and rejects it); for every w > 0 the unsigned test is invoked on w   *)
(* and its verdict is returned.                                            *)
(***************************************************************************)
C8_NegativeNeverTested ==
    (entry = "is_probable_prime_bigint" /\ Returned) =>
        /\ mr_w <= 0 => verdict = Some(FALSE)
        /\ mr_w < 0 => unsigned_calls = << >>
        /\ mr_w = 0 => unsigned_calls = <<0>>
        /\ mr_w > 0 =>
              /\ unsigned_calls = <<mr_w>>
              /\ verdict = Some(is_probable_prime(mr_w, mr_iter, mr_rng))

\* the BigInt entry was called on zero: the unsigned test ran and said false
C8_Witness ==
    /\ entry = "is_probable_prime_bigint"
    /\ mr_w = 0
    /\ verdict = Some(FALSE)
    /\ unsigned_calls = <<0>>

(***************************************************************************)
(* C10 as stated: once trial division has left w open, each round passes   *)
(* exactly when b^m mod w is 1 or w-1 or a successive squaring             *)
(* z_j = b^(m*2^j) mod w (1 <= j <= a-1) is w-1 before any z_j is 1; the   *)
(* first round that does not pass returns false, and true is returned only *)
(* after all iter rounds pass.                                             *)
(***************************************************************************)
C10_SuccessiveSquarings ==
    (entry = "is_probable_prime_with_rng" /\ Returned
        /\ mr_w > 1 /\ trial_division(mr_w) = None) =>
        verdict = Some(\A i \in 1..mr_iter : RoundPasses(mr_w, mr_rng[i]))


(***************************************************************************)
(* The sieve map between calls of next()                                   *)
(***************************************************************************)
\* the largest prime yielded so far (the primes come out in ascending order)
LargestYielded == produced[Len(produced)]

SmallestPrimeFactor(k) == CHOOSE p \in 2..k : k % p = 0 /\ \A d \in 2..(p - 1) : k % d # 0

\* a key is a composite no larger than the square of the largest prime yielded
CompositeKeyInRange(k) ==
    /\ produced # << >>
    /\ k >= 4
    /\ ~IsPrime(k)
    /\ k <= LargestYielded * LargestYielded

\* C11 (as stated): after any number of next() calls every key of the sieve
\* map is a composite number no larger than the square of the largest prime
\* yielded so far, and its value is twice the key's smallest prime factor.
C11_SmallestFactorStride ==
    \A k \in DOMAIN sieve_map :
        /\ CompositeKeyInRange(k)
        /\ sieve_map[k] = 2 * SmallestPrimeFactor(k)

\* C11 (amended): after any number of next() calls every key of the sieve map
\* is a composite number no larger than the square of the largest prime
\* yielded so far, and its value is twice an odd prime already yielded that
\* divides the key and whose square does not exceed the key; that prime need
\* not be the key's smallest prime factor, because a multiple already held
\* by another prime's entry is skipped.
C11_YieldedFactorStride ==
    \A k \in DOMAIN sieve_map :
        /\ CompositeKeyInRange(k)
        /\ \E i \in 1..Len(produced) :
               /\ produced[i] # 2
               /\ k % produced[i] = 0
               /\ produced[i] * produced[i] <= k
               /\ sieve_map[k] = 2 * produced[i]

\* 45 = 35 + 10 is taken by the entry of 5 before the entry of 3 reaches it
C11_Witness ==
    /\ 45 \in DOMAIN sieve_map
    /\ sieve_map[45] = 10
    /\ SmallestPrimeFactor(45) = 3
    /\ Len(produced) > 5

====
